---- MODULE Spec2Model ----
(***************************************************************************)
(* Model of pkg/service/service.go: the Service lifecycle (Stop / Run with *)
(* its kill-or-drain shutdown loop) and the dispatch resolution            *)
(* (DispatchCall).                                                         *)
(*                                                                         *)
(* Stop runs on the caller's goroutine, concurrently with Run, so each of  *)
(* its two statements (Fuse.Break, atomic.Bool.Store) is one step, and     *)
(* every statement of Run that touches shared state or calls a collaborator*)
(* is one step, named after its source line.                               *)
(***************************************************************************)
EXTENDS Integers, Sequences, FiniteSets, TLC

\* ------------------------------------------------------------------ bounds
\* number of Stop calls issued during one lifetime of the Service
MaxStops == 2
\* the history of gauge readings, and the call counters, are exact below
\* this length and saturate at it (the drain loop itself is never cut off)
MaxPolls == 4

VARIABLES
    \* ---- Service fields
    broken,         \* s.shutdown (core.Fuse): TRUE once Break() was called
    killed,         \* s.killed (atomic.Bool)
    promServer,     \* s.promServer != nil (conf.PrometheusPort > 0)
    rpcSIPServer,   \* s.rpcSIPServer != nil
    \* ---- Stop calls, in the order in which they executed Break();
    \*      calls[i] = [kill |-> argument, stored |-> Store() done]
    calls,
    \* ---- the goroutine executing Run
    runPc,          \* position in Run: "l<line>", "ret" (running defers), "returned"
    runErr,         \* value Run returns: "none" until it returns, then "nil" or an error
    defers,         \* stack of deferred calls registered so far (last is run first)
    killedRead,     \* result of s.killed.Load() in the current loop iteration
    polled,         \* the gauge was queried in the current loop iteration
    activeCalls,    \* local activeCalls of the current loop iteration
    \* ---- collaborators (test doubles): what was invoked on them
    registered,     \* intake topic currently registered on the RPC server
    regCalls,       \* invocations of rpcSIPServer.RegisterCreateSIPParticipantTopic
    deregCalls,     \* invocations of rpcSIPServer.DeregisterCreateSIPParticipantTopic
    readings,       \* values returned by sipServiceActiveCalls(), oldest first
    stopCalls,      \* invocations of sipServiceStop()
    shutdownCalls,  \* invocations of rpcSIPServer.Shutdown()
    promClosed,     \* promListener.Close() was run
    stopBeforeShutdown, \* sipServiceStop() had returned when Shutdown() ran
    \* ---- one DispatchCall
    dpc,            \* "ready" | "done"
    info,           \* the *sip.CallInfo passed in
    request,        \* the EvaluateSIPDispatchRulesRequest sent, "none" before
    rpcErr,         \* the EvaluateSIPDispatchRules call returns an error
    resp,           \* the response it returns
    rpcSent,        \* EvaluateSIPDispatchRules requests sent by the call
    dispatch,       \* the CallDispatch returned
    \* ---- one GetAuthCredentials
    apc,            \* "idle" | "ready" | "done"
    authArgs,       \* the arguments from, to, toHost, srcAddress
    authRequest,    \* the GetSIPTrunkAuthenticationRequest sent
    authErr,        \* the error GetSIPTrunkAuthentication returns, "nil" for none
    authResp,       \* the response it returns
    authSent,       \* GetSIPTrunkAuthentication requests sent by the call
    auth            \* the values returned: username, password, drop, err

svcVars == <<broken, killed, promServer, rpcSIPServer, calls>>
runVars == <<runPc, runErr, defers, killedRead, polled, activeCalls>>
obsVars == <<registered, regCalls, deregCalls, readings, stopCalls,
             shutdownCalls, promClosed, stopBeforeShutdown>>
dispatchVars == <<dpc, info, request, rpcErr, resp, rpcSent, dispatch>>
authVars == <<apc, authArgs, authRequest, authErr, authResp, authSent, auth>>
vars == <<svcVars, runVars, obsVars, dispatchVars, authVars>>

\* a counter that is exact below MaxPolls and saturates there
Bump(n) == IF n < MaxPolls THEN n + 1 ELSE n

\* the readings history, exact while shorter than MaxPolls
Record(h, v) == IF Len(h) < MaxPolls THEN Append(h, v) ELSE h

\* values sipServiceActiveCalls() may return: a count of calls in flight
\* (Run only tells a positive count from zero)
GaugeValues == {0, 1, 3}

\* ------------------------------------------------------------ dispatch data
ResultCodes == {"LEGACY_ACCEPT_OR_PIN", "ACCEPT", "REQUEST_PIN", "REJECT", "DROP",
                "UNKNOWN"}

\* rpc.EvaluateSIPDispatchRulesResponse, each string field empty or set
Responses ==
    [Result : ResultCodes, RequestPin : BOOLEAN,
     RoomName : {"", "room-a"}, ParticipantIdentity : {"", "caller-1000"},
     ParticipantName : {"", "name"}, ParticipantMetadata : {"", "meta"},
     WsUrl : {"", "ws://lk"}, Token : {"", "token"},
     SipTrunkId : {"", "trunk"}, SipDispatchRuleId : {"", "rule"}]

\* sip.CallInfo values of inbound calls
CallInfos ==
    {[FromUser |-> "1000", ToUser |-> "2000", ToHost |-> "sip.host",
      SrcAddress |-> "10.0.0.1", Pin |-> "", NoPin |-> FALSE],
     [FromUser |-> "1001", ToUser |-> "2000", ToHost |-> "sip.host",
      SrcAddress |-> "10.0.0.2", Pin |-> "1234", NoPin |-> TRUE]}

\* the request literal of lines 151-159
DispatchRequest(i) ==
    [CallingNumber |-> i.FromUser, CalledNumber |-> i.ToUser,
     CalledHost |-> i.ToHost, SrcAddress |-> i.SrcAddress, Pin |-> i.Pin,
     NoPin |-> i.NoPin]

NoRequest == [CallingNumber |-> "none", CalledNumber |-> "none",
              CalledHost |-> "none", SrcAddress |-> "none", Pin |-> "none",
              NoPin |-> FALSE]

\* sip.CallDispatch with only Result set (every other field at its zero value)
EmptyDispatch(result) ==
    [Result |-> result, RoomName |-> "", Identity |-> "", Name |-> "",
     Metadata |-> "", WsUrl |-> "", Token |-> "", TrunkID |-> "",
     DispatchRuleID |-> ""]

NoDispatch == EmptyDispatch("none")

\* AcceptDispatch with the identity and the name taken from each other's field
AcceptDispatch_SwapsNames(r) ==
    [Result |-> "DispatchAccept", RoomName |-> r.RoomName,
     Identity |-> r.ParticipantName, Name |-> r.ParticipantIdentity,
     Metadata |-> r.ParticipantMetadata, WsUrl |-> r.WsUrl, Token |-> r.Token,
     TrunkID |-> r.SipTrunkId, DispatchRuleID |-> r.SipDispatchRuleId]

\* the Accept literal of lines 174-184 and 186-196
AcceptDispatch(r) ==
    [Result |-> "DispatchAccept", RoomName |-> r.RoomName,
     Identity |-> r.ParticipantIdentity, Name |-> r.ParticipantName,
     Metadata |-> r.ParticipantMetadata, WsUrl |-> r.WsUrl, Token |-> r.Token,
     TrunkID |-> r.SipTrunkId, DispatchRuleID |-> r.SipDispatchRuleId]

\* MapResponse whose default case admits the call
MapResponse_DefaultAccepts(r) ==
    CASE r.Result = "LEGACY_ACCEPT_OR_PIN" ->
            IF r.RequestPin THEN EmptyDispatch("DispatchRequestPin")
            ELSE AcceptDispatch(r)
      [] r.Result = "ACCEPT" -> AcceptDispatch(r)
      [] r.Result = "REQUEST_PIN" ->
            [EmptyDispatch("DispatchRequestPin") EXCEPT !.TrunkID = r.SipTrunkId]
      [] r.Result = "REJECT" -> EmptyDispatch("DispatchNoRuleReject")
      [] r.Result = "DROP" -> EmptyDispatch("DispatchNoRuleDrop")
      [] OTHER -> AcceptDispatch(r)

\* MapResponse whose REQUEST_PIN case copies every response field
MapResponse_PinCopiesAll(r) ==
    CASE r.Result = "LEGACY_ACCEPT_OR_PIN" ->
            IF r.RequestPin THEN EmptyDispatch("DispatchRequestPin")
            ELSE AcceptDispatch(r)
      [] r.Result = "ACCEPT" -> AcceptDispatch(r)
      [] r.Result = "REQUEST_PIN" ->
            [AcceptDispatch(r) EXCEPT !.Result = "DispatchRequestPin"]
      [] r.Result = "REJECT" -> EmptyDispatch("DispatchNoRuleReject")
      [] r.Result = "DROP" -> EmptyDispatch("DispatchNoRuleDrop")
      [] OTHER -> EmptyDispatch("DispatchNoRuleReject")

\* the switch of lines 165-206
MapResponse(r) ==
    CASE r.Result = "LEGACY_ACCEPT_OR_PIN" ->
            IF r.RequestPin THEN EmptyDispatch("DispatchRequestPin")
            ELSE AcceptDispatch(r)
      [] r.Result = "ACCEPT" -> AcceptDispatch(r)
      [] r.Result = "REQUEST_PIN" ->
            [EmptyDispatch("DispatchRequestPin") EXCEPT !.TrunkID = r.SipTrunkId]
      [] r.Result = "REJECT" -> EmptyDispatch("DispatchNoRuleReject")
      [] r.Result = "DROP" -> EmptyDispatch("DispatchNoRuleDrop")
      [] OTHER -> EmptyDispatch("DispatchNoRuleReject")

\* ---------------------------------------------------------------- auth data
\* arguments of GetAuthCredentials
AuthArgs ==
    {[from |-> "1000", to |-> "2000", toHost |-> "sip.host", srcAddress |-> "10.0.0.1"],
     [from |-> "1001", to |-> "2001", toHost |-> "pbx.host", srcAddress |-> "10.0.0.2"]}

\* the error value of the GetSIPTrunkAuthentication call, "nil" for success
AuthErrors == {"nil", "errTimeout", "errUnavailable"}

\* rpc.GetSIPTrunkAuthenticationResponse
AuthResponses == [Username : {"", "user"}, Password : {"", "secret"}, Drop : BOOLEAN]

\* the request literal of lines 136-141
AuthRequest(a) ==
    [From |-> a.from, To |-> a.to, ToHost |-> a.toHost, SrcAddress |-> a.srcAddress]

NoAuthRequest == [From |-> "none", To |-> "none", ToHost |-> "none", SrcAddress |-> "none"]

\* the four values GetAuthCredentials returns
AuthResult(u, pw, d, e) == [username |-> u, password |-> pw, drop |-> d, err |-> e]

NoAuth == AuthResult("none", "none", FALSE, "none")

\* GetAuthResult with the response read although the call failed
GetAuthResult_ReadsRespOnError(e, r) == AuthResult(r.Username, r.Password, r.Drop, e)

\* GetAuthResult that reports a drop as an error
GetAuthResult_DropIsError(e, r) ==
    IF e # "nil" THEN AuthResult("", "", FALSE, e)
    ELSE IF r.Drop THEN AuthResult("", "", TRUE, "errDrop")
    ELSE AuthResult(r.Username, r.Password, r.Drop, "nil")

\* lines 143-147: the error branch and the success return
GetAuthResult(e, r) ==
    IF e # "nil" THEN AuthResult("", "", FALSE, e)
    ELSE AuthResult(r.Username, r.Password, r.Drop, "nil")

\* ------------------------------------------------------------------- Init
\* NewService: the fuse is unbroken, killed is false, promServer is set when
\* conf.PrometheusPort > 0, rpcSIPServer is nil until Run constructs it.
ServiceInit ==
    /\ broken = FALSE
    /\ killed = FALSE
    /\ promServer \in BOOLEAN
    /\ rpcSIPServer = FALSE
    /\ calls = <<>>
    /\ runPc = "l91"
    /\ runErr = "none"
    /\ defers = <<>>
    /\ killedRead = FALSE
    /\ polled = FALSE
    /\ activeCalls = 0
    /\ registered = FALSE
    /\ regCalls = 0
    /\ deregCalls = 0
    /\ readings = <<>>
    /\ stopCalls = 0
    /\ shutdownCalls = 0
    /\ promClosed = FALSE
    /\ stopBeforeShutdown = FALSE

DispatchIdle ==
    /\ dpc = "idle"
    /\ info = CHOOSE i \in CallInfos : i.Pin = ""
    /\ request = NoRequest
    /\ rpcErr = FALSE
    /\ resp = CHOOSE r \in Responses : r.Result = "REJECT" /\ ~r.RequestPin
                 /\ r.RoomName = "" /\ r.ParticipantIdentity = ""
                 /\ r.ParticipantName = "" /\ r.ParticipantMetadata = ""
                 /\ r.WsUrl = "" /\ r.Token = "" /\ r.SipTrunkId = ""
                 /\ r.SipDispatchRuleId = ""
    /\ rpcSent = 0
    /\ dispatch = NoDispatch

AuthIdle ==
    /\ apc = "idle"
    /\ authArgs = CHOOSE a \in AuthArgs : a.from = "1000"
    /\ authRequest = NoAuthRequest
    /\ authErr = "nil"
    /\ authResp = CHOOSE r \in AuthResponses : r.Username = "" /\ r.Password = "" /\ ~r.Drop
    /\ authSent = 0
    /\ auth = NoAuth

Init == ServiceInit /\ DispatchIdle /\ AuthIdle

\* ------------------------------------------------------------------- Stop
\* line 84: s.shutdown.Break().  Break is idempotent: the first call trips
\* the fuse, later calls leave it tripped.  The call is appended to calls.
StopBreak(kill) ==
    /\ Len(calls) < MaxStops
    /\ broken' = TRUE
    /\ calls' = Append(calls, [kill |-> kill, stored |-> FALSE])
    /\ UNCHANGED <<killed, promServer, rpcSIPServer, runVars, obsVars, dispatchVars, authVars>>

\* line 85: s.killed.Store(kill), executed by every call, then Stop returns
StopStore(i) ==
    /\ i \in 1..Len(calls)
    /\ ~calls[i].stored
    /\ killed' = calls[i].kill
    /\ calls' = [calls EXCEPT ![i].stored = TRUE]
    /\ UNCHANGED <<broken, promServer, rpcSIPServer, runVars, obsVars, dispatchVars, authVars>>

\* CanAccept reading the kill flag instead of the fuse
CanAccept_ReadsKilled == ~killed

\* lines 209-211: CanAccept
CanAccept == ~broken

\* -------------------------------------------------------------------- Run
\* a return statement: the value is fixed, then the deferred calls run
Return(err) ==
    /\ runErr' = err
    /\ runPc' = "ret"

\* lines 91-100: bind the metrics listener when promServer is configured
RunListen(ok) ==
    /\ runPc = "l91"
    /\ IF ~promServer
         THEN /\ ok
              /\ runPc' = "l103"
              /\ UNCHANGED <<runErr, defers>>
         ELSE IF ok
           THEN /\ runPc' = "l103"
                /\ defers' = Append(defers, "promListener.Close")
                /\ UNCHANGED runErr
           ELSE /\ Return("listenErr")
                /\ UNCHANGED defers
    /\ UNCHANGED <<svcVars, killedRead, polled, activeCalls, obsVars, dispatchVars, authVars>>

\* lines 102-106: construct the RPC server, defer its Shutdown
RunNewServer(ok) ==
    /\ runPc = "l103"
    /\ IF ok
         THEN /\ rpcSIPServer' = TRUE
              /\ defers' = Append(defers, "rpcSIPServer.Shutdown")
              /\ runPc' = "l108"
              /\ UNCHANGED runErr
         ELSE /\ Return("serverErr")
              /\ UNCHANGED <<rpcSIPServer, defers>>
    /\ UNCHANGED <<broken, killed, promServer, calls, killedRead, polled,
                   activeCalls, obsVars, dispatchVars, authVars>>

\* lines 213-219: Service.RegisterCreateSIPParticipantTopic
RegisterCreateSIPParticipantTopic(ok) ==
    IF rpcSIPServer
      THEN /\ regCalls' = Bump(regCalls)
           /\ registered' = (registered \/ ok)
      ELSE /\ ok
           /\ UNCHANGED <<regCalls, registered>>

\* RunRegister with the error of line 108 dropped: the loop is entered anyway
RunRegister_IgnoresErr(ok) ==
    /\ runPc = "l108"
    /\ RegisterCreateSIPParticipantTopic(ok)
    /\ runPc' = "l115"
    /\ UNCHANGED runErr
    /\ UNCHANGED <<svcVars, defers, killedRead, polled, activeCalls, deregCalls,
                   readings, stopCalls, shutdownCalls, promClosed,
                   stopBeforeShutdown, dispatchVars, authVars>>

\* lines 108-112: register intake, then "service ready"
RunRegister(ok) ==
    /\ runPc = "l108"
    /\ RegisterCreateSIPParticipantTopic(ok)
    /\ IF ok
         THEN /\ runPc' = "l115"
              /\ UNCHANGED runErr
         ELSE Return("registerErr")
    /\ UNCHANGED <<svcVars, defers, killedRead, polled, activeCalls, deregCalls,
                   readings, stopCalls, shutdownCalls, promClosed,
                   stopBeforeShutdown, dispatchVars, authVars>>

\* RunSelect with line 118 left out: the loop goes straight to the kill check
RunSelect_SkipDeregister ==
    /\ runPc = "l115"
    /\ broken
    /\ runPc' = "l120"
    /\ killedRead' = FALSE
    /\ polled' = FALSE
    /\ activeCalls' = 0
    /\ UNCHANGED <<svcVars, runErr, defers, obsVars, dispatchVars, authVars>>

\* RunSelect on a signal that is not latched: it is received only while a
\* Stop call is still in progress
RunSelect_NotLatched ==
    /\ runPc = "l115"
    /\ broken
    /\ \E i \in 1..Len(calls) : ~calls[i].stored
    /\ runPc' = "l118"
    /\ killedRead' = FALSE
    /\ polled' = FALSE
    /\ activeCalls' = 0
    /\ UNCHANGED <<svcVars, runErr, defers, obsVars, dispatchVars, authVars>>

\* lines 114-117: the select blocks until the fuse is broken; a broken fuse
\* is ready on every later pass through the loop as well
RunSelect ==
    /\ runPc = "l115"
    /\ broken
    /\ runPc' = "l118"
    /\ killedRead' = FALSE
    /\ polled' = FALSE
    /\ activeCalls' = 0
    /\ UNCHANGED <<svcVars, runErr, defers, obsVars, dispatchVars, authVars>>

\* lines 221-225: Service.DeregisterCreateSIPParticipantTopic
DeregisterCreateSIPParticipantTopic ==
    IF rpcSIPServer
      THEN /\ deregCalls' = Bump(deregCalls)
           /\ registered' = FALSE
      ELSE UNCHANGED <<deregCalls, registered>>

\* line 118
RunDeregister ==
    /\ runPc = "l118"
    /\ DeregisterCreateSIPParticipantTopic
    /\ runPc' = "l120"
    /\ UNCHANGED <<svcVars, runErr, defers, killedRead, polled, activeCalls,
                   regCalls, readings, stopCalls, shutdownCalls, promClosed,
                   stopBeforeShutdown, dispatchVars, authVars>>

\* line 120: if !s.killed.Load()
RunLoadKilled ==
    /\ runPc = "l120"
    /\ killedRead' = killed
    /\ runPc' = IF killed THEN "l129" ELSE "l121"
    /\ UNCHANGED <<svcVars, runErr, defers, polled, activeCalls, obsVars, dispatchVars, authVars>>

\* line 121: activeCalls := s.sipServiceActiveCalls()
RunPoll(n) ==
    /\ runPc = "l121"
    /\ activeCalls' = n
    /\ polled' = TRUE
    /\ readings' = Record(readings, n)
    /\ runPc' = "l122"
    /\ UNCHANGED <<svcVars, runErr, defers, killedRead, registered, regCalls,
                   deregCalls, stopCalls, shutdownCalls, promClosed,
                   stopBeforeShutdown, dispatchVars, authVars>>

\* RunBranch with the comparison off by one: a single call in flight is
\* not waited for
RunBranch_OffByOne ==
    /\ runPc = "l122"
    /\ runPc' = IF activeCalls > 1 THEN "l124" ELSE "l129"
    /\ UNCHANGED <<svcVars, runErr, defers, killedRead, polled, activeCalls,
                   obsVars, dispatchVars, authVars>>

\* RunBranch with >= for >: a count of zero is waited for as well
RunBranch_WaitsOnZero ==
    /\ runPc = "l122"
    /\ runPc' = IF activeCalls >= 0 THEN "l124" ELSE "l129"
    /\ UNCHANGED <<svcVars, runErr, defers, killedRead, polled, activeCalls,
                   obsVars, dispatchVars, authVars>>

\* line 122: if activeCalls > 0
RunBranch ==
    /\ runPc = "l122"
    /\ runPc' = IF activeCalls > 0 THEN "l124" ELSE "l129"
    /\ UNCHANGED <<svcVars, runErr, defers, killedRead, polled, activeCalls,
                   obsVars, dispatchVars, authVars>>

\* lines 123-125: time.Sleep(shutdownTimer); continue
RunSleep ==
    /\ runPc = "l124"
    /\ runPc' = "l115"
    /\ UNCHANGED <<svcVars, runErr, defers, killedRead, polled, activeCalls,
                   obsVars, dispatchVars, authVars>>

\* line 129: s.sipServiceStop()
RunStopCallback ==
    /\ runPc = "l129"
    /\ stopCalls' = Bump(stopCalls)
    /\ runPc' = "l130"
    /\ UNCHANGED <<svcVars, runErr, defers, killedRead, polled, activeCalls,
                   registered, regCalls, deregCalls, readings, shutdownCalls,
                   promClosed, stopBeforeShutdown, dispatchVars, authVars>>

\* RunReturnNil with the return missing: the loop is entered again
RunReturnNil_Continue ==
    /\ runPc = "l130"
    /\ runPc' = "l115"
    /\ UNCHANGED <<svcVars, runErr, defers, killedRead, polled, activeCalls,
                   obsVars, dispatchVars, authVars>>

\* line 130: return nil
RunReturnNil ==
    /\ runPc = "l130"
    /\ Return("nil")
    /\ UNCHANGED <<svcVars, defers, killedRead, polled, activeCalls, obsVars,
                   dispatchVars, authVars>>

\* RunDefer running the deferred calls in the order of their registration
RunDefer_FirstRegisteredFirst ==
    /\ runPc = "ret"
    /\ defers # <<>>
    /\ LET d == defers[1] IN
         /\ defers' = Tail(defers)
         /\ IF d = "rpcSIPServer.Shutdown"
              THEN /\ shutdownCalls' = Bump(shutdownCalls)
                   /\ stopBeforeShutdown' = (stopCalls > 0)
                   /\ registered' = FALSE
                   /\ UNCHANGED promClosed
              ELSE /\ promClosed' = TRUE
                   /\ UNCHANGED <<shutdownCalls, stopBeforeShutdown, registered>>
    /\ UNCHANGED <<svcVars, runPc, runErr, killedRead, polled, activeCalls,
                   regCalls, deregCalls, readings, stopCalls, dispatchVars,
                   authVars>>

\* lines 96 and 106: the deferred calls run last-registered first
RunDefer ==
    /\ runPc = "ret"
    /\ defers # <<>>
    /\ LET d == defers[Len(defers)] IN
         /\ defers' = SubSeq(defers, 1, Len(defers) - 1)
         /\ IF d = "rpcSIPServer.Shutdown"
              THEN /\ shutdownCalls' = Bump(shutdownCalls)
                   /\ stopBeforeShutdown' = (stopCalls > 0)
                   /\ registered' = FALSE
                   /\ UNCHANGED promClosed
              ELSE /\ promClosed' = TRUE
                   /\ UNCHANGED <<shutdownCalls, stopBeforeShutdown, registered>>
    /\ UNCHANGED <<svcVars, runPc, runErr, killedRead, polled, activeCalls,
                   regCalls, deregCalls, readings, stopCalls, dispatchVars,
                   authVars>>

\* Run hands its result to the caller
RunReturned ==
    /\ runPc = "ret"
    /\ defers = <<>>
    /\ runPc' = "returned"
    /\ UNCHANGED <<svcVars, runErr, defers, killedRead, polled, activeCalls,
                   obsVars, dispatchVars, authVars>>

RunNext ==
    \/ \E ok \in BOOLEAN : RunListen(ok)
    \/ \E ok \in BOOLEAN : RunNewServer(ok)
    \/ \E ok \in BOOLEAN : RunRegister(ok)
    \/ RunSelect
    \/ RunDeregister
    \/ RunLoadKilled
    \/ \E n \in GaugeValues : RunPoll(n)
    \/ RunBranch
    \/ RunSleep
    \/ RunStopCallback
    \/ RunReturnNil
    \/ RunDefer
    \/ RunReturned

StopNext ==
    \/ \E kill \in BOOLEAN : StopBreak(kill)
    \/ \E i \in 1..MaxStops : StopStore(i)

Next == RunNext \/ StopNext

Spec == Init /\ [][Next]_vars

\* ----------------------------------------------------------- DispatchCall
\* A call of DispatchCall on a Service in its constructed state: the call
\* info, the RPC's outcome and its response are the inputs.
DispatchInit ==
    /\ ServiceInit
    /\ dpc = "ready"
    /\ info \in CallInfos
    /\ request = NoRequest
    /\ rpcErr \in BOOLEAN
    /\ resp \in Responses
    /\ rpcSent = 0
    /\ dispatch = NoDispatch
    /\ AuthIdle

\* DispatchCall with the error check of lines 161-164 left out
DispatchCall_IgnoresErr ==
    /\ dpc = "ready"
    /\ request' = DispatchRequest(info)
    /\ rpcSent' = rpcSent + 1
    /\ dispatch' = MapResponse(resp)
    /\ dpc' = "done"
    /\ UNCHANGED <<svcVars, runVars, obsVars, info, rpcErr, resp, authVars>>

\* DispatchCall that refuses calls once the shutdown fuse is broken
DispatchCall_RefusesWhenBroken ==
    /\ dpc = "ready"
    /\ request' = DispatchRequest(info)
    /\ rpcSent' = rpcSent + 1
    /\ dispatch' = IF rpcErr \/ broken THEN EmptyDispatch("DispatchNoRuleReject")
                   ELSE MapResponse(resp)
    /\ dpc' = "done"
    /\ UNCHANGED <<svcVars, runVars, obsVars, info, rpcErr, resp, authVars>>

\* lines 150-207: one EvaluateSIPDispatchRules request, then the error
\* branch (161-164) or the switch on resp.Result
DispatchCall ==
    /\ dpc = "ready"
    /\ request' = DispatchRequest(info)
    /\ rpcSent' = rpcSent + 1
    /\ dispatch' = IF rpcErr THEN EmptyDispatch("DispatchNoRuleReject")
                   ELSE MapResponse(resp)
    /\ dpc' = "done"
    /\ UNCHANGED <<svcVars, runVars, obsVars, info, rpcErr, resp, authVars>>

DispatchNext == DispatchCall

DispatchSpec == DispatchInit /\ [][DispatchNext]_vars

\* ----------------------------------------------------- GetAuthCredentials
\* A call of GetAuthCredentials on a Service in its constructed state: the
\* arguments, the RPC's error and its response are the inputs.
AuthInit ==
    /\ ServiceInit
    /\ DispatchIdle
    /\ apc = "ready"
    /\ authArgs \in AuthArgs
    /\ authRequest = NoAuthRequest
    /\ authErr \in AuthErrors
    /\ authResp \in AuthResponses
    /\ authSent = 0
    /\ auth = NoAuth

\* lines 135-148: one GetSIPTrunkAuthentication request, then the return
GetAuthCredentials ==
    /\ apc = "ready"
    /\ authRequest' = AuthRequest(authArgs)
    /\ authSent' = authSent + 1
    /\ auth' = GetAuthResult(authErr, authResp)
    /\ apc' = "done"
    /\ UNCHANGED <<svcVars, runVars, obsVars, dispatchVars, authArgs, authErr, authResp>>

AuthNext == GetAuthCredentials

AuthSpec == AuthInit /\ [][AuthNext]_vars

\* ---------------------------------------- resolution during the lifecycle
\* One DispatchCall and one GetAuthCredentials issued by the SIP layer at
\* any moment of the Service's life, concurrently with Run and Stop.  Both
\* RPCs succeed or both fail; the responses carry every field.
FullInit ==
    /\ ServiceInit
    /\ dpc = "ready"
    /\ info = CHOOSE i \in CallInfos : i.Pin = ""
    /\ request = NoRequest
    /\ rpcErr \in BOOLEAN
    /\ resp = CHOOSE r \in Responses : r.Result = "ACCEPT" /\ ~r.RequestPin
                 /\ r.RoomName # "" /\ r.ParticipantIdentity # ""
                 /\ r.ParticipantName # "" /\ r.ParticipantMetadata # ""
                 /\ r.WsUrl # "" /\ r.Token # "" /\ r.SipTrunkId # ""
                 /\ r.SipDispatchRuleId # ""
    /\ rpcSent = 0
    /\ dispatch = NoDispatch
    /\ apc = "ready"
    /\ authArgs = CHOOSE a \in AuthArgs : a.from = "1000"
    /\ authRequest = NoAuthRequest
    /\ authErr = IF rpcErr THEN "errTimeout" ELSE "nil"
    /\ authResp = CHOOSE r \in AuthResponses : r.Username # "" /\ r.Password # "" /\ r.Drop
    /\ authSent = 0
    /\ auth = NoAuth

FullNext == Next \/ DispatchCall \/ GetAuthCredentials

FullSpec == FullInit /\ [][FullNext]_vars

\* The goroutine executing Run is scheduled as long as it can take a step,
\* and a Stop call that has begun runs to its end.
LiveSpec == Spec /\ WF_vars(RunNext) /\ WF_vars(\E i \in 1..MaxStops : StopStore(i))

\* ================================================================ claims
\* the Stop call that tripped the gate, and the calls after it
FirstKill == calls[1].kill
NoKillIssued == \A i \in 1..Len(calls) : ~calls[i].kill
\* sipServiceStop() is about to be invoked or has been invoked
AtOrPastStop == runPc = "l129" \/ stopCalls > 0

\* C1: when the first Stop call is Stop(false), the stop callback is invoked
\* only after a poll of the active-call gauge returned 0, whatever later
\* Stop(true) calls are issued.
C1_GracefulFirstWins ==
    (Len(calls) >= 1 /\ ~FirstKill /\ stopCalls > 0) => (polled /\ activeCalls = 0)

\* C2: when the first Stop call is Stop(true) and it has returned, a later
\* Stop(false) does not downgrade it: whenever the main loop examines the
\* kill flag it finds it set, and goes on to the stop callback without
\* waiting for the gauge.
C2_KillNotDowngraded ==
    (Len(calls) >= 1 /\ FirstKill /\ calls[1].stored /\ runPc = "l120") => killed

\* C3: intake deregistration has been invoked, and intake is deregistered,
\* before the active-call gauge is first queried and before the stop
\* callback is invoked, on the drain path and on the forced-kill path.
C3_DeregisterFirst ==
    (runPc \in {"l121", "l129"} \/ readings # <<>> \/ stopCalls > 0)
        => (deregCalls >= 1 /\ ~registered)

C3_Witness ==
    /\ stopCalls = 1
    /\ killedRead
    /\ readings = <<>>
    /\ deregCalls = 1
    /\ runPc = "l130"

\* C4: the stop callback is invoked only when, in the same loop iteration,
\* the kill flag was read as true or the gauge returned a value <= 0; and
\* when only Stop(false) was called, the callback fires after the first
\* poll that returns 0 and no poll follows it (readings 3, 1, 0: three
\* polls, callback after the third).
C4_StopOnlyAfterKillOrZero ==
    /\ AtOrPastStop => (killedRead \/ (polled /\ activeCalls <= 0))
    /\ (NoKillIssued /\ AtOrPastStop /\ Len(readings) < MaxPolls) =>
          /\ readings # <<>>
          /\ readings[Len(readings)] = 0
          /\ \A j \in 1..(Len(readings) - 1) : readings[j] > 0

C4_Witness ==
    /\ stopCalls = 1
    /\ Len(calls) >= 1
    /\ NoKillIssued
    /\ readings = <<3, 1, 0>>
    /\ runPc = "returned"

\* C5: when the first Stop call is Stop(true), Run queries the active-call
\* gauge at most once.
C5_AtMostOnePoll ==
    (Len(calls) >= 1 /\ FirstKill) => Len(readings) <= 1

\* C6: the gate and the kill flag change in one step: whenever the main
\* loop has woken on the tripped gate and read the kill flag, the value it
\* read is the argument of the first Stop call; so after a single
\* Stop(true) the gauge is never queried and no drain period is slept.
C6_GateAndFlagAtomic ==
    /\ runPc \in {"l121", "l129"} => killedRead = FirstKill
    /\ (Len(calls) = 1 /\ FirstKill) => (readings = <<>> /\ runPc # "l124")

\* C7: intake deregistration is invoked at most once in the lifetime of a
\* Service, and so is registration.
C7_DeregisterAtMostOnce == deregCalls <= 1 /\ regCalls <= 1

\* C8: whatever Stop calls are issued, no Stop call ever blocks, the gate
\* once tripped stays tripped, the stop callback is invoked at most once and
\* exactly once by the time Run returns nil, and Run returns once: it takes
\* no step after it has returned.
C8_ExactlyOneTransition ==
    /\ \A i \in 1..Len(calls) : ~calls[i].stored => ENABLED StopStore(i)
    /\ Len(calls) >= 1 => broken
    /\ stopCalls <= 1
    /\ stopCalls = 1 => broken
    /\ (runErr = "nil") => (stopCalls = 1 /\ runPc \in {"ret", "returned"})
    /\ (runPc = "returned") => (runErr # "none" /\ ~ENABLED RunNext)

C8_Witness ==
    /\ runPc = "returned"
    /\ runErr = "nil"
    /\ stopCalls = 1
    /\ Len(calls) >= 2
    /\ calls[1].kill # calls[2].kill
    /\ \A i \in 1..Len(calls) : calls[i].stored

\* C9: in the drain loop, a poll that returns 0 is the last one: Run goes
\* straight on to the stop callback and returns nil; and after a poll that
\* returns a positive count Run polls again (or finds the kill flag set),
\* every time.
C9_DrainTerminates ==
    /\ [][(runPc = "l122" /\ activeCalls = 0) => runPc' \in {"l122", "l129"}]_vars
    /\ (runPc = "l122" /\ activeCalls = 0)
          ~> (runPc = "returned" /\ runErr = "nil" /\ stopCalls = 1)
    /\ (runPc = "l122" /\ activeCalls > 0) ~> (runPc = "l121" \/ runPc = "l129")

C9_Witness ==
    /\ runPc = "returned"
    /\ runErr = "nil"
    /\ Len(calls) >= 1
    /\ NoKillIssued
    /\ readings = <<1, 3, 0>>

\* C10: when the dispatch-evaluation RPC returns an error, DispatchCall
\* returns Result = RejectNoRule with every optional field empty, and has
\* sent exactly one request.
C10_FailClosedOnError ==
    (dpc = "done" /\ rpcErr) =>
        /\ dispatch = EmptyDispatch("DispatchNoRuleReject")
        /\ rpcSent = 1
        /\ request = DispatchRequest(info)

C10_Witness ==
    /\ dpc = "done"
    /\ rpcErr
    /\ resp.Result = "ACCEPT"
    /\ resp.RoomName = "room-a"
    /\ resp.Token = "token"
    /\ dispatch.Result = "DispatchNoRuleReject"

\* a DispatchCall has returned after a successful RPC
Dispatched == dpc = "done" /\ ~rpcErr
KnownCodes == {"LEGACY_ACCEPT_OR_PIN", "ACCEPT", "REQUEST_PIN", "REJECT", "DROP"}
AcceptingResponse ==
    resp.Result = "ACCEPT" \/ (resp.Result = "LEGACY_ACCEPT_OR_PIN" /\ ~resp.RequestPin)

\* C11: a successful response whose result code is none of the five known
\* ones yields Result = RejectNoRule with no optional field populated, and
\* Result = Accept is returned only for code accept or for code
\* legacyAcceptOrPin without the PIN flag.
C11_UnknownCodeRejects ==
    /\ (Dispatched /\ resp.Result \notin KnownCodes) =>
          dispatch = EmptyDispatch("DispatchNoRuleReject")
    /\ (dpc = "done" /\ dispatch.Result = "DispatchAccept") =>
          (~rpcErr /\ AcceptingResponse)

C11_Witness ==
    /\ Dispatched
    /\ resp.Result = "UNKNOWN"
    /\ resp.RoomName = "room-a"
    /\ resp.Token = "token"
    /\ ~resp.RequestPin
    /\ dispatch.Result = "DispatchNoRuleReject"

\* C12: for code legacyAcceptOrPin with the request-PIN flag set,
\* DispatchCall returns Result = RequestPin whose TrunkID is the response's
\* trunk ID and whose every other optional field is empty.
C12_LegacyPinCarriesTrunk ==
    (Dispatched /\ resp.Result = "LEGACY_ACCEPT_OR_PIN" /\ resp.RequestPin) =>
        dispatch = [EmptyDispatch("DispatchRequestPin") EXCEPT !.TrunkID = resp.SipTrunkId]

\* C13: for code accept, and for code legacyAcceptOrPin without the PIN
\* flag, DispatchCall returns Result = Accept with each of the eight fields
\* equal to the corresponding response field (so the two codes give the
\* same CallDispatch for the same response fields).
C13_AcceptCopiesFields ==
    (Dispatched /\ AcceptingResponse) =>
        /\ dispatch.Result = "DispatchAccept"
        /\ dispatch.RoomName = resp.RoomName
        /\ dispatch.Identity = resp.ParticipantIdentity
        /\ dispatch.Name = resp.ParticipantName
        /\ dispatch.Metadata = resp.ParticipantMetadata
        /\ dispatch.WsUrl = resp.WsUrl
        /\ dispatch.Token = resp.Token
        /\ dispatch.TrunkID = resp.SipTrunkId
        /\ dispatch.DispatchRuleID = resp.SipDispatchRuleId

C13_Witness ==
    /\ Dispatched
    /\ resp.Result = "LEGACY_ACCEPT_OR_PIN"
    /\ ~resp.RequestPin
    /\ resp.ParticipantIdentity = "caller-1000"
    /\ resp.ParticipantName = ""
    /\ dispatch.Result = "DispatchAccept"
    /\ dispatch.Identity = "caller-1000"
    /\ dispatch.RoomName = "room-a"

\* C14: codes requestPin, reject and drop yield RequestPin, RejectNoRule
\* and DropNoRule; RequestPin carries the response's TrunkID and nothing
\* else, Reject and Drop carry no optional field, whatever the response
\* holds.
C14_PinRejectDrop ==
    /\ (Dispatched /\ resp.Result = "REQUEST_PIN") =>
          dispatch = [EmptyDispatch("DispatchRequestPin") EXCEPT !.TrunkID = resp.SipTrunkId]
    /\ (Dispatched /\ resp.Result = "REJECT") =>
          dispatch = EmptyDispatch("DispatchNoRuleReject")
    /\ (Dispatched /\ resp.Result = "DROP") =>
          dispatch = EmptyDispatch("DispatchNoRuleDrop")

C14_Witness ==
    /\ Dispatched
    /\ resp.Result = "REQUEST_PIN"
    /\ resp.RoomName = "room-a"
    /\ resp.SipDispatchRuleId = "rule"
    /\ resp.SipTrunkId = "trunk"
    /\ dispatch.Result = "DispatchRequestPin"
    /\ dispatch.TrunkID = "trunk"
    /\ dispatch.RoomName = ""

\* C15: GetAuthCredentials sends exactly one authentication request; when
\* the RPC errors it returns that error unchanged with empty username,
\* empty password and drop = false; when it succeeds it returns the
\* response's username, password and drop flag with a nil error, drop = true
\* included.
C15_AuthPassThrough ==
    apc = "done" =>
        /\ authSent = 1
        /\ authRequest = AuthRequest(authArgs)
        /\ auth.err = authErr
        /\ authErr # "nil" =>
              (auth.username = "" /\ auth.password = "" /\ auth.drop = FALSE)
        /\ authErr = "nil" =>
              /\ auth.username = authResp.Username
              /\ auth.password = authResp.Password
              /\ auth.drop = authResp.Drop

C15_Witness ==
    /\ apc = "done"
    /\ authErr = "nil"
    /\ authResp.Drop
    /\ authResp.Username = "user"
    /\ auth.drop
    /\ auth.err = "nil"

\* errors of the three startup steps, and the positions inside the wait loop
StartupErrors == {"listenErr", "serverErr", "registerErr"}
LoopPcs == {"l115", "l118", "l120", "l121", "l122", "l124", "l129", "l130"}

\* C16: when binding the metrics listener, constructing the RPC server or
\* registering intake fails, Run returns that error and has never invoked
\* the stop callback, the gauge or the deregistration, whatever Stop calls
\* are issued; the wait loop is entered only with the listener bound (when
\* configured), the RPC server constructed and intake registered.
C16_StartupFailureFatal ==
    /\ runErr \in StartupErrors =>
          /\ runPc \in {"ret", "returned"}
          /\ stopCalls = 0
          /\ readings = <<>>
          /\ deregCalls = 0
    /\ runPc \in LoopPcs =>
          /\ runErr = "none"
          /\ rpcSIPServer
          /\ regCalls = 1
          /\ deregCalls = 0 => registered
          /\ promServer => \E k \in 1..Len(defers) : defers[k] = "promListener.Close"

C16_Witness ==
    /\ runPc = "returned"
    /\ runErr = "registerErr"
    /\ Len(calls) >= 1
    /\ calls[1].stored
    /\ killed
    /\ deregCalls = 0
    /\ stopCalls = 0

\* C17: DispatchCall and GetAuthCredentials return, in every lifecycle
\* state, the result their RPC outcome alone determines, and a step of
\* either leaves the gate, the kill flag, Run and the intake registration
\* as they were.
C17_ResolutionIndependent ==
    /\ [](dpc = "done" =>
            dispatch = IF rpcErr THEN EmptyDispatch("DispatchNoRuleReject")
                       ELSE AcceptDispatch(resp))
    /\ [](apc = "done" =>
            auth = IF authErr # "nil" THEN AuthResult("", "", FALSE, authErr)
                   ELSE AuthResult(authResp.Username, authResp.Password,
                                   authResp.Drop, "nil"))
    /\ [][(dpc' # dpc \/ apc' # apc) => UNCHANGED <<svcVars, runVars, obsVars>>]_vars

C17_Witness ==
    /\ dpc = "done"
    /\ apc = "done"
    /\ dispatch.Result = "DispatchAccept"
    /\ auth.drop
    /\ broken
    /\ runPc = "l124"
    /\ ~registered

\* C18: a Stop issued at any moment, also before Run is called or before it
\* reaches the wait loop, is not lost: Run either fails its startup or
\* observes the broken fuse and deregisters intake; and once the kill flag
\* was read true or a poll returned 0 it invokes the stop callback and
\* returns nil.
C18_StopLatched ==
    /\ (broken /\ runPc \in {"l91", "l103", "l108", "l115"})
          ~> (runErr \in StartupErrors \/ (deregCalls >= 1 /\ ~registered))
    /\ (runPc = "l129") ~> (runPc = "returned" /\ runErr = "nil" /\ stopCalls = 1)

C18_Witness ==
    /\ runPc = "l91"
    /\ broken
    /\ Len(calls) >= 1
    /\ \A i \in 1..Len(calls) : calls[i].stored
    /\ killed

\* C19: CanAccept is true in every state before the first Stop call has
\* broken the fuse and false in every state after, whatever the kill
\* argument and the active-call count, and once false it stays false.
C19_CanAcceptMonotone ==
    /\ [](CanAccept = (Len(calls) = 0))
    /\ [][~CanAccept => ~CanAccept']_vars

\* CanAccept is already false while intake is still registered
C19_Witness ==
    /\ ~CanAccept
    /\ ~killed
    /\ registered
    /\ deregCalls = 0
    /\ runPc = "l115"

\* C20: once the RPC server is constructed its Shutdown runs exactly once on
\* every return path of Run: when Run returns nil, after the stop callback
\* has returned; when registration fails, with the stop callback never
\* invoked; and always before the metrics listener is closed.
C20_ShutdownOnce ==
    /\ shutdownCalls <= 1
    /\ shutdownCalls = 1 => rpcSIPServer
    /\ (runPc = "returned" /\ rpcSIPServer) => shutdownCalls = 1
    /\ (shutdownCalls = 1 /\ runErr = "nil") => (stopBeforeShutdown /\ stopCalls = 1)
    /\ runErr = "registerErr" => (stopCalls = 0 /\ ~stopBeforeShutdown)
    /\ (promClosed /\ rpcSIPServer) => shutdownCalls = 1

C20_Witness ==
    /\ runPc = "returned"
    /\ runErr = "nil"
    /\ promServer
    /\ promClosed
    /\ shutdownCalls = 1
    /\ stopBeforeShutdown

====
